---------------------------- MODULE Spec2Model ----------------------------
(***************************************************************************)
(* Model of packages/@kexi/vibe-native/src/clone.c: the N-API addon that   *)
(* exposes getPlatform / isAvailable / supportsDirectory / clone, with the *)
(* macOS clonefile() strategy and the Linux FICLONE strategy.              *)
(*                                                                         *)
(* The addon is compiled for exactly one target (build); a JavaScript host *)
(* then calls the exported properties.  The kernel (open, ioctl, close,    *)
(* unlink, clonefile) and the N-API string decoder are modelled by what    *)
(* they do on a small file system: one directory holding the entries of    *)
(* Names, a per-process descriptor table and the thread's errno.           *)
(***************************************************************************)
EXTENDS Integers, Sequences, FiniteSets, TLC

(***************************************************************************)
(* Program constants (clone.c lines 17-24).                                *)
(***************************************************************************)
PATH_MAX == 4096
ERROR_MSG_BUFFER_SIZE == 256
ARG_ERROR_MSG_SIZE == 128

(***************************************************************************)
(* Bound of the model: how many calls the host makes in one behaviour.     *)
(***************************************************************************)
MaxCalls == 2

Builds == {"DARWIN", "LINUX", "OTHER"}

(***************************************************************************)
(* Text.  Messages are TLA+ strings.  A JavaScript string handed in as a   *)
(* path is kept run-length encoded, [stem, pad]: the bytes of stem         *)
(* followed by pad bytes "x", so that a path of PATH_MAX bytes stays       *)
(* readable in a state.  Paths are ASCII: one byte per character.          *)
(***************************************************************************)
Str(stem, pad) == [stem |-> stem, pad |-> pad]

ByteLen(s) == Len(s.stem) + s.pad

Min(a, b) == IF a < b THEN a ELSE b

\* The first n bytes of s.
TakeBytes(s, n) ==
  IF n >= ByteLen(s) THEN s
  ELSE IF n <= Len(s.stem) THEN Str(SubSeq(s.stem, 1, n), 0)
  ELSE Str(s.stem, n - Len(s.stem))

\* The length of the last path component of s (bytes after the last "/").
RECURSIVE LastSlash(_, _)
LastSlash(stem, i) ==
  IF i = 0 THEN 0
  ELSE IF SubSeq(stem, i, i) = "/" THEN i
  ELSE LastSlash(stem, i - 1)

ComponentLen(s) == ByteLen(s) - LastSlash(s.stem, Len(s.stem))

(***************************************************************************)
(* JavaScript values.                                                      *)
(***************************************************************************)
JsUndefined == [t |-> "undefined"]
JsNumber == [t |-> "number"]
JsString(s) == [t |-> "string", s |-> s]
JsBoolean(b) == [t |-> "boolean", b |-> b]
JsFunction(native) == [t |-> "function", native |-> native]
\* The C return value NULL of a native callback: an exception is pending.
CNull == [t |-> "NULL"]
\* No value yet: the call has not returned.
Pending == [t |-> "pending"]

JsError(ctor, message, props) ==
  [ctor |-> ctor, message |-> message, props |-> props]

HasProp(e, name) == \E p \in e.props : p[1] = name

PropOf(e, name) == (CHOOSE p \in e.props : p[1] = name)[2]

(***************************************************************************)
(* C library: "%d", snprintf's truncation, errno numbers and strerror.     *)
(***************************************************************************)
Digit(d) == SubSeq("0123456789", d + 1, d + 1)

RECURSIVE DecDigits(_)
DecDigits(n) ==
  IF n < 10 THEN Digit(n) ELSE DecDigits(n \div 10) \o Digit(n % 10)

\* printf's %d.
Dec(n) == IF n < 0 THEN "-" \o DecDigits(-n) ELSE DecDigits(n)

\* snprintf(buf, size, ...): at most size - 1 bytes of the formatted text.
snprintf(size, text) ==
  IF Len(text) <= size - 1 THEN text ELSE SubSeq(text, 1, size - 1)

\* errno numbers of the two kernels the strategies run on.
ErrnoTable ==
  [LINUX |-> [ENOENT |-> 2, EBADF |-> 9, EACCES |-> 13, EEXIST |-> 17,
              EISDIR |-> 21, ENAMETOOLONG |-> 36, ENOTSUP |-> 95],
   DARWIN |-> [ENOENT |-> 2, EBADF |-> 9, EACCES |-> 13, EEXIST |-> 17,
               EISDIR |-> 21, ENAMETOOLONG |-> 63, ENOTSUP |-> 45]]

\* Longest file name the kernel accepts for one path component (NAME_MAX).
Kernel == [NAME_MAX |-> 255]

VARIABLES
  build,        \* the target the addon was compiled for
  exports,      \* the module's exports object after Init
  fs,           \* the directory: name -> file
  dirWritable,  \* whether the process may add and remove entries of the directory
  reflink,      \* whether the file system supports copy-on-write clones
  fds,          \* the process's descriptor table: open descriptor -> name
  errno,        \* the thread's errno
  pc,           \* position of the host / the native callback
  fn,           \* the native callback that is running
  args,         \* the JavaScript arguments of the running call
  src, dest,            \* char src[PATH_MAX], dest[PATH_MAX]
  src_fd, dest_fd,      \* int src_fd, dest_fd
  result, saved_errno,  \* int result, saved_errno
  prop,         \* the property of exports the host is calling
  ret,          \* what the call returned to the host
  thrown,       \* the exceptions the call threw, in order
  trace,        \* the system calls the call issued, in order
  fsBefore, fdsBefore,  \* the directory and descriptor table when the call began
  ncalls        \* calls the host has completed

vars ==
  <<build, exports, fs, dirWritable, reflink, fds, errno, pc, fn, args, src,
    dest, src_fd, dest_fd, result, saved_errno, prop, ret, thrown, trace,
    fsBefore, fdsBefore, ncalls>>

(***************************************************************************)
(* The kernel.  A file is absent, a regular file with data and a mode      *)
(* ("rw" or "ro" for the calling user) or a directory.  Every system call  *)
(* is an operator from the state it reads to [ret, err, fs, fds]; err is   *)
(* the errno it sets when ret = -1.                                        *)
(***************************************************************************)
Names == {"a", "b"}

Absent == [kind |-> "none", data |-> <<>>, mode |-> "rw"]
File(data, mode) == [kind |-> "file", data |-> data, mode |-> mode]
Dir(data) == [kind |-> "dir", data |-> data, mode |-> "rw"]

E == ErrnoTable[build]

SysResult(r, e, f, d) == [ret |-> r, err |-> e, fs |-> f, fds |-> d]

\* Path resolution: 0, or the errno every path-taking call fails with.
ResolveErr(path) ==
  IF ByteLen(path) = 0 THEN E.ENOENT
  ELSE IF ComponentLen(path) > Kernel.NAME_MAX THEN E.ENAMETOOLONG
  ELSE IF path.pad # 0 \/ path.stem \notin Names THEN E.ENOENT
  ELSE 0

\* May O_CREAT create the entry: the name resolves, or only its last
\* component is missing.
Creatable(path) ==
  /\ ByteLen(path) > 0
  /\ ComponentLen(path) <= Kernel.NAME_MAX
  /\ path.pad = 0
  /\ path.stem \in Names

LowestFree(d) ==
  CHOOSE n \in 0..Cardinality(DOMAIN d) :
    /\ n \notin DOMAIN d
    /\ \A m \in 0..(n - 1) : m \in DOMAIN d

OpenFd(f, d, name) == SysResult(LowestFree(d), 0, f, (LowestFree(d) :> name) @@ d)

\* open(path, O_RDONLY)
sys_open_rdonly(f, d, path) ==
  IF ResolveErr(path) # 0 THEN SysResult(-1, ResolveErr(path), f, d)
  ELSE IF f[path.stem].kind = "none" THEN SysResult(-1, E.ENOENT, f, d)
  ELSE OpenFd(f, d, path.stem)

\* open(path, O_WRONLY | O_CREAT | O_TRUNC, DEFAULT_FILE_MODE)
sys_open_creat_trunc(f, d, path) ==
  IF ~Creatable(path) THEN SysResult(-1, ResolveErr(path), f, d)
  ELSE LET n == path.stem IN
    CASE f[n].kind = "none" ->
           IF dirWritable
           THEN OpenFd([f EXCEPT ![n] = File(<<>>, "rw")], d, n)
           ELSE SysResult(-1, E.EACCES, f, d)
      [] f[n].kind = "dir" -> SysResult(-1, E.EISDIR, f, d)
      [] OTHER ->
           IF f[n].mode = "ro"
           THEN SysResult(-1, E.EACCES, f, d)
           ELSE OpenFd([f EXCEPT ![n].data = <<>>], d, n)

\* ioctl(dfd, FICLONE, sfd)
sys_ioctl_ficlone(f, d, dfd, sfd) ==
  IF dfd \notin DOMAIN d \/ sfd \notin DOMAIN d
  THEN SysResult(-1, E.EBADF, f, d)
  ELSE IF f[d[sfd]].kind = "dir" \/ f[d[dfd]].kind = "dir"
  THEN SysResult(-1, E.EISDIR, f, d)
  ELSE IF ~reflink THEN SysResult(-1, E.ENOTSUP, f, d)
  ELSE SysResult(0, 0, [f EXCEPT ![d[dfd]].data = f[d[sfd]].data], d)

\* close(fd)
sys_close(f, d, fd) ==
  IF fd \notin DOMAIN d THEN SysResult(-1, E.EBADF, f, d)
  ELSE SysResult(0, 0, f, [n \in DOMAIN d \ {fd} |-> d[n]])

\* unlink(path)
sys_unlink(f, d, path) ==
  IF ResolveErr(path) # 0 THEN SysResult(-1, ResolveErr(path), f, d)
  ELSE LET n == path.stem IN
    CASE f[n].kind = "none" -> SysResult(-1, E.ENOENT, f, d)
      [] f[n].kind = "dir" -> SysResult(-1, E.EISDIR, f, d)
      [] OTHER ->
           IF dirWritable
           THEN SysResult(0, 0, [f EXCEPT ![n] = Absent], d)
           ELSE SysResult(-1, E.EACCES, f, d)

\* clonefile(from, to, 0)
sys_clonefile(f, d, from, to) ==
  IF ResolveErr(from) # 0 THEN SysResult(-1, ResolveErr(from), f, d)
  ELSE IF f[from.stem].kind = "none" THEN SysResult(-1, E.ENOENT, f, d)
  ELSE IF ~Creatable(to) THEN SysResult(-1, ResolveErr(to), f, d)
  ELSE IF f[to.stem].kind # "none" THEN SysResult(-1, E.EEXIST, f, d)
  ELSE IF ~dirWritable THEN SysResult(-1, E.EACCES, f, d)
  ELSE IF ~reflink THEN SysResult(-1, E.ENOTSUP, f, d)
  ELSE SysResult(0, 0, [f EXCEPT ![to.stem] = f[from.stem]], d)

\* errno after a system call: set on failure, left alone on success.
ErrnoAfter(r) == IF r.ret < 0 THEN r.err ELSE errno

\* strerror(err)
strerror(err) ==
  CASE err = E.ENOENT -> "No such file or directory"
    [] err = E.EBADF -> "Bad file descriptor"
    [] err = E.EACCES -> "Permission denied"
    [] err = E.EEXIST -> "File exists"
    [] err = E.EISDIR -> "Is a directory"
    [] err = E.ENAMETOOLONG -> "File name too long"
    [] err = E.ENOTSUP -> "Operation not supported"
    [] err = 0 -> IF build = "DARWIN" THEN "Undefined error: 0" ELSE "Success"
    [] OTHER -> "Unknown error " \o Dec(err)

\* One entry of trace.
NoPath == Str("", 0)
Sys(name, path, path2, fd, fd2, r) ==
  [sys |-> name, path |-> path, path2 |-> path2, fd |-> fd, fd2 |-> fd2,
   ret |-> r.ret, err |-> IF r.ret < 0 THEN r.err ELSE 0]

(***************************************************************************)
(* N-API.                                                                  *)
(***************************************************************************)
napi_typeof(value) == value.t

\* napi_get_value_string_utf8(env, value, buf, bufsize, &len): copies at most
\* bufsize - 1 bytes, terminates the buffer, stores the number of bytes
\* copied and returns napi_ok; a string that does not fit is cut short.
napi_get_value_string_utf8(value, bufsize) ==
  IF value.t # "string"
  THEN [status |-> "napi_string_expected", buf |-> NoPath, len |-> 0]
  ELSE [status |-> "napi_ok",
        buf |-> TakeBytes(value.s, bufsize - 1),
        len |-> Min(ByteLen(value.s), bufsize - 1)]

\* napi_get_cb_info(env, info, &argc, argv, ...): argv[i], undefined when the
\* caller passed fewer arguments.
Argv(a, i) == IF i <= Len(a) THEN a[i] ELSE JsUndefined

(***************************************************************************)
(* clone.c                                                                 *)
(***************************************************************************)
\* Mutant of throw_errno_error: the buffer is sized by sizeof(char*), not by
\* ERROR_MSG_BUFFER_SIZE.
throw_errno_error_sizeof_pointer(operation, err) ==
  JsError("Error",
          snprintf(8,
                   operation \o " failed: " \o strerror(err)
                     \o " (errno " \o Dec(err) \o ")"),
          {<<"errno", err>>})

throw_errno_error(operation, err) ==
  JsError("Error",
          snprintf(ERROR_MSG_BUFFER_SIZE,
                   operation \o " failed: " \o strerror(err)
                     \o " (errno " \o Dec(err) \o ")"),
          {<<"errno", err>>})

ArgResult(ok, buf, len, th) ==
  [ok |-> ok, buf |-> buf, len |-> len, thrown |-> th]

\* Mutant of get_string_arg: the check for an empty path is missing.
get_string_arg_no_empty_check(value, buffer_size, arg_name) ==
  IF napi_typeof(value) # "string"
  THEN ArgResult(FALSE, NoPath, 0,
         <<JsError("TypeError",
                   snprintf(ARG_ERROR_MSG_SIZE, arg_name \o " must be a string"),
                   {})>>)
  ELSE LET r == napi_get_value_string_utf8(value, buffer_size) IN
    ArgResult(TRUE, r.buf, r.len, <<>>)

\* Mutant of get_string_arg: an empty path returns false with nothing thrown.
get_string_arg_silent_empty(value, buffer_size, arg_name) ==
  IF napi_typeof(value) # "string"
  THEN ArgResult(FALSE, NoPath, 0,
         <<JsError("TypeError",
                   snprintf(ARG_ERROR_MSG_SIZE, arg_name \o " must be a string"),
                   {})>>)
  ELSE LET r == napi_get_value_string_utf8(value, buffer_size) IN
    IF r.len = 0
    THEN ArgResult(FALSE, r.buf, r.len, <<>>)
    ELSE ArgResult(TRUE, r.buf, r.len, <<>>)

get_string_arg(value, buffer_size, arg_name) ==
  IF napi_typeof(value) # "string"
  THEN ArgResult(FALSE, NoPath, 0,
         <<JsError("TypeError",
                   snprintf(ARG_ERROR_MSG_SIZE, arg_name \o " must be a string"),
                   {})>>)
  ELSE LET r == napi_get_value_string_utf8(value, buffer_size) IN
    IF r.status # "napi_ok"
    THEN ArgResult(FALSE, NoPath, 0,
           <<JsError("Error",
                     snprintf(ARG_ERROR_MSG_SIZE,
                              "Failed to read " \o arg_name \o " string"),
                     {})>>)
    ELSE IF r.len = 0
    THEN ArgResult(FALSE, r.buf, r.len,
           <<JsError("Error",
                     snprintf(ARG_ERROR_MSG_SIZE, arg_name \o " cannot be empty"),
                     {})>>)
    ELSE ArgResult(TRUE, r.buf, r.len, <<>>)

\* The argument handling both strategies open with: the argc check, then src,
\* then dest.  [ok, src, dest, thrown].
clone_args(a, cname) ==
  IF Len(a) < 2
  THEN [ok |-> FALSE, src |-> NoPath, dest |-> NoPath,
        thrown |-> <<JsError("Error",
                             cname \o " requires 2 arguments: src, dest", {})>>]
  ELSE LET s == get_string_arg(Argv(a, 1), PATH_MAX, "src") IN
    IF ~s.ok
    THEN [ok |-> FALSE, src |-> s.buf, dest |-> NoPath, thrown |-> s.thrown]
    ELSE LET d == get_string_arg(Argv(a, 2), PATH_MAX, "dest") IN
      [ok |-> d.ok, src |-> s.buf, dest |-> d.buf, thrown |-> d.thrown]

\* if (src_fd < 0), if (dest_fd < 0)
open_failed(fd) == fd < 0

\* Mutant of clone_failed: the test is inverted.
clone_failed_inverted(r) == r = 0

\* if (result != 0)
clone_failed(r) == r # 0

\* Init(env, exports): the properties set on exports.
ModuleInit(b) ==
  CASE b = "DARWIN" ->
         [getPlatform |-> JsFunction("get_platform"),
          clone |-> JsFunction("darwin_clonefile"),
          isAvailable |-> JsFunction("darwin_is_available"),
          supportsDirectory |-> JsFunction("darwin_supports_directory")]
    [] b = "LINUX" ->
         [getPlatform |-> JsFunction("get_platform"),
          clone |-> JsFunction("linux_ficlone"),
          isAvailable |-> JsFunction("linux_is_available"),
          supportsDirectory |-> JsFunction("linux_supports_directory")]
    [] OTHER ->
         [getPlatform |-> JsFunction("get_platform"),
          isAvailable |-> JsBoolean(FALSE)]

(***************************************************************************)
(* The host.                                                               *)
(***************************************************************************)
PropertyNames == {"getPlatform", "isAvailable", "supportsDirectory", "clone"}

Short(name) == JsString(Str(name, 0))
\* A string of n bytes: "a" and n - 1 bytes "x".
Long(n) == JsString(Str("a", n - 1))

ArgValues ==
  {JsUndefined, JsNumber, Short(""), Short("a"), Short("b"),
   Long(PATH_MAX - 1), Long(PATH_MAX)}

ArgLists(name) ==
  IF name = "clone"
  THEN {<<>>} \cup {<<x>> : x \in ArgValues}
         \cup {<<x, y>> : x \in ArgValues, y \in ArgValues}
  ELSE {<<>>}

Locals0 ==
  /\ src = NoPath /\ dest = NoPath
  /\ src_fd = -1 /\ dest_fd = -1
  /\ result = 0 /\ saved_errno = 0

Call0 ==
  /\ pc = "idle" /\ fn = "none" /\ prop = "none" /\ args = <<>>
  /\ ret = Pending /\ thrown = <<>> /\ trace = <<>>

InitialFiles ==
  {f \in [Names -> {Absent, File(<<1>>, "rw"), File(<<2>>, "ro"), Dir(<<3>>)}] :
     f["a"].kind # "none" \/ f["b"].kind # "none"}

Init ==
  /\ build \in Builds
  /\ exports = ModuleInit(build)
  /\ fs \in InitialFiles
  /\ dirWritable \in BOOLEAN
  /\ reflink \in BOOLEAN
  /\ fds \in {[n \in {0, 1, 2} |-> "tty"], [n \in {0, 1, 2, 4} |-> "tty"]}
  /\ errno = 0
  /\ Call0
  /\ Locals0
  /\ fsBefore = fs
  /\ fdsBefore = fds
  /\ ncalls = 0

\* The host calls exports[name](...).  A property that is missing or is not
\* a function makes the JavaScript engine throw a TypeError.
HostCall ==
  /\ pc = "idle"
  /\ ncalls < MaxCalls
  /\ \E name \in PropertyNames :
       \E a \in ArgLists(name) :
         /\ prop' = name
         /\ args' = a
         /\ IF name \in DOMAIN exports /\ exports[name].t = "function"
            THEN /\ pc' = "entry"
                 /\ fn' = exports[name].native
                 /\ thrown' = <<>>
                 /\ ret' = Pending
            ELSE /\ pc' = "done"
                 /\ fn' = "none"
                 /\ thrown' = <<JsError("TypeError", name \o " is not a function", {})>>
                 /\ ret' = CNull
  /\ trace' = <<>>
  /\ fsBefore' = fs
  /\ fdsBefore' = fds
  /\ UNCHANGED <<build, exports, fs, dirWritable, reflink, fds, errno, src, dest,
                 src_fd, dest_fd, result, saved_errno, ncalls>>

\* The call is over: its frame and its result are gone.
HostReturn ==
  /\ pc = "done"
  /\ pc' = "idle" /\ fn' = "none" /\ prop' = "none" /\ args' = <<>>
  /\ ret' = Pending /\ thrown' = <<>> /\ trace' = <<>>
  /\ src' = NoPath /\ dest' = NoPath
  /\ src_fd' = -1 /\ dest_fd' = -1
  /\ result' = 0 /\ saved_errno' = 0
  /\ ncalls' = ncalls + 1
  /\ UNCHANGED <<build, exports, fs, dirWritable, reflink, fds, errno, fsBefore,
                 fdsBefore>>

env == <<build, exports, dirWritable, reflink>>
locals == <<src, dest, src_fd, dest_fd, result, saved_errno>>
history == <<fsBefore, fdsBefore, ncalls, prop, args, fn>>

\* A capability query returns v and touches nothing else.
Returns(v) ==
  /\ ret' = v
  /\ pc' = "done"
  /\ UNCHANGED <<env, fs, fds, errno, locals, history, thrown, trace>>

get_platform ==
  /\ pc = "entry"
  /\ fn = "get_platform"
  /\ Returns(CASE build = "DARWIN" -> Short("darwin")
               [] build = "LINUX" -> Short("linux")
               [] OTHER -> Short("unknown"))

darwin_is_available ==
  /\ pc = "entry"
  /\ fn = "darwin_is_available"
  /\ Returns(JsBoolean(TRUE))

darwin_supports_directory ==
  /\ pc = "entry"
  /\ fn = "darwin_supports_directory"
  /\ Returns(JsBoolean(TRUE))

linux_is_available ==
  /\ pc = "entry"
  /\ fn = "linux_is_available"
  /\ Returns(JsBoolean(TRUE))

linux_supports_directory ==
  /\ pc = "entry"
  /\ fn = "linux_supports_directory"
  /\ Returns(JsBoolean(FALSE))

\* The callback returns NULL with exception e pending.
Throw(e) ==
  /\ thrown' = Append(thrown, e)
  /\ ret' = CNull
  /\ pc' = "done"

\* The callback returns undefined.
ReturnUndefined ==
  /\ thrown' = thrown
  /\ ret' = JsUndefined
  /\ pc' = "done"

(***************************************************************************)
(* darwin_clonefile                                                        *)
(***************************************************************************)
darwin_clonefile_args ==
  /\ pc = "entry"
  /\ fn = "darwin_clonefile"
  /\ LET v == clone_args(args, "clonefile") IN
       /\ src' = v.src
       /\ dest' = v.dest
       /\ IF v.ok
          THEN pc' = "clonefile" /\ UNCHANGED <<thrown, ret>>
          ELSE /\ thrown' = thrown \o v.thrown
               /\ ret' = CNull
               /\ pc' = "done"
  /\ UNCHANGED <<env, fs, fds, errno, src_fd, dest_fd, result, saved_errno,
                 history, trace>>

darwin_clonefile_call ==
  /\ pc = "clonefile"
  /\ fn = "darwin_clonefile"
  /\ LET r == sys_clonefile(fs, fds, src, dest) IN
       /\ fs' = r.fs
       /\ errno' = ErrnoAfter(r)
       /\ result' = r.ret
       /\ trace' = Append(trace, Sys("clonefile", src, dest, -1, -1, r))
       /\ IF clone_failed(r.ret)
          THEN Throw(throw_errno_error("clonefile", ErrnoAfter(r)))
          ELSE ReturnUndefined
  /\ UNCHANGED <<env, fds, src, dest, src_fd, dest_fd, saved_errno, history>>

(***************************************************************************)
(* linux_ficlone                                                           *)
(***************************************************************************)
linux_ficlone_args ==
  /\ pc = "entry"
  /\ fn = "linux_ficlone"
  /\ LET v == clone_args(args, "ficlone") IN
       /\ src' = v.src
       /\ dest' = v.dest
       /\ IF v.ok
          THEN pc' = "open_src" /\ UNCHANGED <<thrown, ret>>
          ELSE /\ thrown' = thrown \o v.thrown
               /\ ret' = CNull
               /\ pc' = "done"
  /\ UNCHANGED <<env, fs, fds, errno, src_fd, dest_fd, result, saved_errno,
                 history, trace>>

\* Mutant of linux_ficlone_open_src: a failed open does not end the call.
linux_ficlone_open_src_no_return ==
  /\ pc = "open_src"
  /\ LET r == sys_open_rdonly(fs, fds, src) IN
       /\ src_fd' = r.ret
       /\ fs' = r.fs
       /\ fds' = r.fds
       /\ errno' = ErrnoAfter(r)
       /\ trace' = Append(trace, Sys("open", src, NoPath, -1, -1, r))
       /\ pc' = "open_dest"
  /\ UNCHANGED <<env, src, dest, dest_fd, result, saved_errno, history, thrown,
                 ret>>

\* int src_fd = open(src, O_RDONLY); if (src_fd < 0) return throw...
linux_ficlone_open_src ==
  /\ pc = "open_src"
  /\ LET r == sys_open_rdonly(fs, fds, src) IN
       /\ src_fd' = r.ret
       /\ fs' = r.fs
       /\ fds' = r.fds
       /\ errno' = ErrnoAfter(r)
       /\ trace' = Append(trace, Sys("open", src, NoPath, -1, -1, r))
       /\ IF open_failed(r.ret)
          THEN Throw(throw_errno_error("open source", ErrnoAfter(r)))
          ELSE pc' = "open_dest" /\ UNCHANGED <<thrown, ret>>
  /\ UNCHANGED <<env, src, dest, dest_fd, result, saved_errno, history>>

\* Mutant of linux_ficlone_open_dest: the failure path does not close src_fd.
linux_ficlone_open_dest_leak ==
  /\ pc = "open_dest"
  /\ LET r == sys_open_creat_trunc(fs, fds, dest) IN
       /\ dest_fd' = r.ret
       /\ fs' = r.fs
       /\ fds' = r.fds
       /\ errno' = ErrnoAfter(r)
       /\ trace' = Append(trace, Sys("open", dest, NoPath, -1, -1, r))
       /\ IF open_failed(r.ret)
          THEN /\ saved_errno' = ErrnoAfter(r)
               /\ Throw(throw_errno_error("open dest", ErrnoAfter(r)))
          ELSE /\ pc' = "ioctl"
               /\ UNCHANGED <<saved_errno, thrown, ret>>
  /\ UNCHANGED <<env, src, dest, src_fd, result, history>>

\* int dest_fd = open(dest, O_WRONLY | O_CREAT | O_TRUNC, DEFAULT_FILE_MODE);
\* if (dest_fd < 0) { saved_errno = errno; close(src_fd); return throw... }
linux_ficlone_open_dest ==
  /\ pc = "open_dest"
  /\ LET r == sys_open_creat_trunc(fs, fds, dest)
         c == sys_close(r.fs, r.fds, src_fd)
     IN
       /\ dest_fd' = r.ret
       /\ IF open_failed(r.ret)
          THEN /\ saved_errno' = ErrnoAfter(r)
               /\ fs' = c.fs
               /\ fds' = c.fds
               /\ errno' = IF c.ret < 0 THEN c.err ELSE ErrnoAfter(r)
               /\ trace' = trace \o <<Sys("open", dest, NoPath, -1, -1, r),
                                      Sys("close", NoPath, NoPath, src_fd, -1, c)>>
               /\ Throw(throw_errno_error("open dest", ErrnoAfter(r)))
          ELSE /\ fs' = r.fs
               /\ fds' = r.fds
               /\ errno' = ErrnoAfter(r)
               /\ trace' = Append(trace, Sys("open", dest, NoPath, -1, -1, r))
               /\ pc' = "ioctl"
               /\ UNCHANGED <<saved_errno, thrown, ret>>
  /\ UNCHANGED <<env, src, dest, src_fd, result, history>>

\* int result = ioctl(dest_fd, FICLONE, src_fd); int saved_errno = errno;
linux_ficlone_ioctl ==
  /\ pc = "ioctl"
  /\ LET r == sys_ioctl_ficlone(fs, fds, dest_fd, src_fd) IN
       /\ result' = r.ret
       /\ fs' = r.fs
       /\ fds' = r.fds
       /\ errno' = ErrnoAfter(r)
       /\ saved_errno' = ErrnoAfter(r)
       /\ trace' = Append(trace, Sys("ioctl", NoPath, NoPath, dest_fd, src_fd, r))
  /\ pc' = "close"
  /\ UNCHANGED <<env, src, dest, src_fd, dest_fd, history, thrown, ret>>

\* close(src_fd); close(dest_fd);
linux_ficlone_close ==
  /\ pc = "close"
  /\ LET c1 == sys_close(fs, fds, src_fd)
         c2 == sys_close(c1.fs, c1.fds, dest_fd)
     IN
       /\ fs' = c2.fs
       /\ fds' = c2.fds
       /\ errno' = IF c2.ret < 0 THEN c2.err
                   ELSE IF c1.ret < 0 THEN c1.err ELSE errno
       /\ trace' = trace \o <<Sys("close", NoPath, NoPath, src_fd, -1, c1),
                              Sys("close", NoPath, NoPath, dest_fd, -1, c2)>>
  /\ pc' = "finish"
  /\ UNCHANGED <<env, locals, history, thrown, ret>>

\* if (result != 0) { unlink(dest); return throw... } return undefined;
linux_ficlone_finish ==
  /\ pc = "finish"
  /\ IF clone_failed(result)
     THEN LET u == sys_unlink(fs, fds, dest) IN
            /\ fs' = u.fs
            /\ fds' = u.fds
            /\ errno' = ErrnoAfter(u)
            /\ trace' = Append(trace, Sys("unlink", dest, NoPath, -1, -1, u))
            /\ Throw(throw_errno_error("ioctl FICLONE", saved_errno))
     ELSE /\ ReturnUndefined
          /\ UNCHANGED <<fs, fds, errno, trace>>
  /\ UNCHANGED <<env, locals, history>>

Next ==
  \/ HostCall
  \/ HostReturn
  \/ get_platform
  \/ darwin_is_available
  \/ darwin_supports_directory
  \/ linux_is_available
  \/ linux_supports_directory
  \/ darwin_clonefile_args
  \/ darwin_clonefile_call
  \/ linux_ficlone_args
  \/ linux_ficlone_open_src
  \/ linux_ficlone_open_dest
  \/ linux_ficlone_ioctl
  \/ linux_ficlone_close
  \/ linux_ficlone_finish

Spec == Init /\ [][Next]_vars

(***************************************************************************)
(* Vocabulary of the properties.                                           *)
(***************************************************************************)
Done == pc = "done"

CloneNatives == {"linux_ficlone", "darwin_clonefile"}

\* Both arguments are present, strings and non-empty.
ArgsValid(a) ==
  /\ Len(a) >= 2
  /\ \A i \in 1..2 : a[i].t = "string" /\ ByteLen(a[i].s) > 0

\* The entry the caller's string names, in directory f.
ExistsIn(f, s) == ResolveErr(s) = 0 /\ f[s.stem].kind # "none"

StartsWith(s, p) == Len(s) >= Len(p) /\ SubSeq(s, 1, Len(p)) = p

Contains(s, p) ==
  \E i \in 1..(Len(s) - Len(p) + 1) : SubSeq(s, i, i + Len(p) - 1) = p

SysNames == [i \in DOMAIN trace |-> trace[i].sys]

IsPrefix(s, u) == Len(s) <= Len(u) /\ s = SubSeq(u, 1, Len(s))

\* The errors the argument handling throws: a message, no numeric code.
IsValidationError(e) ==
  /\ e.props = {}
  /\ Len(e.message) > 0
  /\ \/ e.message \in {"ficlone requires 2 arguments: src, dest",
                       "clonefile requires 2 arguments: src, dest"}
     \/ \E f \in {"src", "dest"} :
          e.message \in {f \o " must be a string", f \o " cannot be empty",
                         "Failed to read " \o f \o " string"}

\* The label of the step that issued trace[i].
LabelOf(i) ==
  CASE trace[i].sys = "clonefile" -> "clonefile"
    [] trace[i].sys = "ioctl" -> "ioctl FICLONE"
    [] trace[i].sys = "open" /\ i = 1 -> "open source"
    [] trace[i].sys = "open" /\ i = 2 -> "open dest"
    [] OTHER -> "none"

\* The decimal rendering is TLC's own, not the model's Dec.
ExpectedMessage(label, code) ==
  label \o " failed: " \o strerror(code) \o " (errno " \o ToString(code) \o ")"

(***************************************************************************)
(* C1.  Linux cleanup invariant, as claimed: whenever linux_ficlone        *)
(* reports an error after the destination was opened and the FICLONE ioctl *)
(* failed, nothing exists at dest.  The code calls unlink(dest) and        *)
(* ignores its result, so this fails when the unlink fails.  The claim is  *)
(* stated for calls whose two paths differ, which it covers: the failure   *)
(* does not need src and dest to name the same file.                       *)
(***************************************************************************)
IoctlFailed == \E i \in DOMAIN trace : trace[i].sys = "ioctl" /\ trace[i].ret # 0

C1_DestAbsentAfterFailedClone ==
  (Done /\ fn = "linux_ficlone" /\ IoctlFailed /\ src # dest) =>
    ~ExistsIn(fs, dest)

(***************************************************************************)
(* C2.  Success path: for validated (src, dest) with src existing and dest *)
(* absent before the call, when the clone primitive (the FICLONE ioctl,    *)
(* clonefile) accepts the request, clone returns undefined and throws      *)
(* nothing, dest exists with the content src had and still has, and no     *)
(* unlink was issued.                                                      *)
(***************************************************************************)
PrimitiveAccepted ==
  \E i \in DOMAIN trace :
    trace[i].sys \in {"ioctl", "clonefile"} /\ trace[i].ret = 0

C2_Case ==
  /\ Done
  /\ fn \in CloneNatives
  /\ ArgsValid(args)
  /\ ExistsIn(fsBefore, args[1].s)
  /\ ~ExistsIn(fsBefore, args[2].s)
  /\ PrimitiveAccepted

C2_SuccessClonesSource ==
  C2_Case =>
    /\ ret = JsUndefined
    /\ thrown = <<>>
    /\ ExistsIn(fs, args[2].s)
    /\ fs[args[2].s.stem].kind = fsBefore[args[1].s.stem].kind
    /\ fs[args[2].s.stem].data = fsBefore[args[1].s.stem].data
    /\ fs[args[1].s.stem] = fsBefore[args[1].s.stem]
    /\ \A i \in DOMAIN trace : trace[i].sys # "unlink"

C2_Witness == C2_Case /\ fn = "linux_ficlone" /\ ret = JsUndefined

(***************************************************************************)
(* C3.  Linux handle discipline: when linux_ficlone returns, on every exit *)
(* path, the descriptor table is the one the call began with, every        *)
(* descriptor an open returned was closed by exactly one later close, and  *)
(* no close was issued on anything else.                                   *)
(***************************************************************************)
Opened == {i \in DOMAIN trace : trace[i].sys = "open" /\ trace[i].ret >= 0}

Closes == {j \in DOMAIN trace : trace[j].sys = "close"}

C3_HandlesClosedOnce ==
  (Done /\ fn = "linux_ficlone") =>
    /\ fds = fdsBefore
    /\ \A i \in Opened :
         /\ Cardinality({j \in Closes : trace[j].fd = trace[i].ret}) = 1
         /\ \A j \in Closes : trace[j].fd = trace[i].ret => j > i
    /\ \A j \in Closes :
         /\ trace[j].ret = 0
         /\ \E i \in Opened : trace[i].ret = trace[j].fd

\* The destination open failed after the source was opened, and the source
\* descriptor is closed again.
C3_Witness ==
  /\ Done
  /\ fn = "linux_ficlone"
  /\ Len(trace) = 3
  /\ trace[1].ret >= 0
  /\ trace[2].sys = "open" /\ trace[2].ret < 0
  /\ trace[3].sys = "close" /\ trace[3].fd = trace[1].ret
  /\ fds = fdsBefore

(***************************************************************************)
(* C4.  Validation precedes every system call: when src or dest is         *)
(* missing, not a string or empty, clone fails with a validation error and *)
(* has issued no system call; the directory and the descriptor table are   *)
(* untouched.                                                              *)
(***************************************************************************)
C4_Case == Done /\ fn \in CloneNatives /\ ~ArgsValid(args)

C4_ValidationBeforeSyscalls ==
  C4_Case =>
    /\ ret = CNull
    /\ Len(thrown) = 1
    /\ IsValidationError(thrown[1])
    /\ trace = <<>>
    /\ fs = fsBefore
    /\ fds = fdsBefore

\* src is a valid path of an existing file, dest is the empty string.
C4_Witness ==
  /\ C4_Case
  /\ Len(args) = 2
  /\ args[1] = Short("a") /\ ExistsIn(fs, args[1].s)
  /\ args[2] = Short("")
  /\ trace = <<>>

(***************************************************************************)
(* C5.  As claimed: a path longer than the PATH_MAX buffer holds (with its *)
(* terminator) is rejected with a validation failure, and no system call   *)
(* is ever given a path other than the caller's.  The code passes the      *)
(* decoder's truncated copy on.                                            *)
(***************************************************************************)
TooLong(v) == v.t = "string" /\ ByteLen(v.s) > PATH_MAX - 1

C5_LongPathRejected ==
  (fn \in CloneNatives /\ Len(args) >= 2) =>
    /\ \A i \in DOMAIN trace :
         trace[i].sys \in {"open", "unlink", "clonefile"} =>
           trace[i].path \in {args[1].s, args[2].s}
    /\ (Done /\ (TooLong(args[1]) \/ TooLong(args[2]))) =>
         /\ trace = <<>>
         /\ Len(thrown) = 1
         /\ IsValidationError(thrown[1])

(***************************************************************************)
(* C6.  Error translation: every error that carries an errno property was  *)
(* produced for a failed system call of the call; its errno is the code E  *)
(* of that system call and its message is exactly                          *)
(* "L failed: <strerror(E)> (errno E)", L being the label of the step, so  *)
(* the message contains L and the decimal rendering of E.                  *)
(***************************************************************************)
Translated(e) ==
  \E i \in DOMAIN trace :
    /\ trace[i].ret < 0
    /\ LabelOf(i) # "none"
    /\ PropOf(e, "errno") = trace[i].err
    /\ e.message = ExpectedMessage(LabelOf(i), trace[i].err)
    /\ Contains(e.message, LabelOf(i))
    /\ Contains(e.message, ToString(trace[i].err))

C6_ErrorTranslation ==
  \A k \in DOMAIN thrown :
    HasProp(thrown[k], "errno") =>
      /\ Cardinality(thrown[k].props) = 1
      /\ Translated(thrown[k])

\* Each label has been translated with a one-digit or a two-digit code.
C6_Witness ==
  /\ Done
  /\ Len(thrown) = 1
  /\ HasProp(thrown[1], "errno")
  /\ thrown[1].message =
       "ioctl FICLONE failed: Operation not supported (errno 95)"

(***************************************************************************)
(* C7.  As claimed: every failed clone call yields exactly one error that  *)
(* carries a message and a numeric code.  The validation errors carry no   *)
(* code.                                                                   *)
(***************************************************************************)
CloneFailed == Done /\ fn \in CloneNatives /\ ret # JsUndefined

C7_EveryFailureHasCode ==
  CloneFailed =>
    /\ Len(thrown) = 1
    /\ Len(thrown[1].message) > 0
    /\ HasProp(thrown[1], "errno")

(***************************************************************************)
(* C7, amended.  A clone call returns undefined having thrown nothing, and *)
(* then none of its open, ioctl or clonefile calls failed; or it returns   *)
(* NULL with exactly one error pending, which carries a non-empty message, *)
(* and carries the numeric errno exactly when the failure is that of a     *)
(* system call: a validation failure carries the message only.             *)
(***************************************************************************)
StepFailed ==
  \E i \in DOMAIN trace :
    trace[i].sys \in {"open", "ioctl", "clonefile"} /\ trace[i].ret < 0

C7_FailureYieldsOneError ==
  (Done /\ fn \in CloneNatives) =>
    \/ /\ ret = JsUndefined
       /\ thrown = <<>>
       /\ ~StepFailed
    \/ /\ ret = CNull
       /\ Len(thrown) = 1
       /\ Len(thrown[1].message) > 0
       /\ HasProp(thrown[1], "errno") <=> StepFailed
       /\ ~StepFailed => (trace = <<>> /\ IsValidationError(thrown[1]))

\* A validation failure: one error, a message, no code.
C7_Witness ==
  /\ CloneFailed
  /\ trace = <<>>
  /\ Len(thrown) = 1
  /\ thrown[1].message = "dest cannot be empty"
  /\ ~HasProp(thrown[1], "errno")

(***************************************************************************)
(* C8.  As claimed: on the unsupported build getPlatform() returns         *)
(* "unsupported", isAvailable() returns false, supportsDirectory() returns *)
(* false and clone is not exposed; on the darwin and linux builds clone is *)
(* exposed and isAvailable() returns true.  The code's unsupported build   *)
(* returns "unknown", sets isAvailable to the boolean false, which is not  *)
(* callable, and sets no supportsDirectory.                                *)
(***************************************************************************)
C8_ExposedInterface ==
  /\ (build = "OTHER") =>
       /\ "clone" \notin DOMAIN exports
       /\ (Done /\ prop = "getPlatform") => ret = Short("unsupported")
       /\ (Done /\ prop = "isAvailable") => ret = JsBoolean(FALSE)
       /\ (Done /\ prop = "supportsDirectory") => ret = JsBoolean(FALSE)
  /\ (build # "OTHER") =>
       /\ "clone" \in DOMAIN exports
       /\ exports["clone"].t = "function"
       /\ (Done /\ prop = "isAvailable") => ret = JsBoolean(TRUE)

(***************************************************************************)
(* C9.  Linux step order and short-circuit: the system calls of            *)
(* linux_ficlone are, in order, open(src), open(dest), ioctl, close(src    *)
(* descriptor), close(dest descriptor) and, after a failed ioctl only,     *)
(* unlink(dest), each issued at most once; a failed open of the source     *)
(* ends the call with nothing else issued and the directory untouched; a   *)
(* failed open of the destination is followed by the close of the source   *)
(* descriptor only; and the error reported carries the label and the OS    *)
(* code of the first failing step, whatever close and unlink did to errno. *)
(***************************************************************************)
FullOrder == <<"open", "open", "ioctl", "close", "close", "unlink">>

Reported(label, code) ==
  /\ ret = CNull
  /\ Len(thrown) = 1
  /\ HasProp(thrown[1], "errno")
  /\ PropOf(thrown[1], "errno") = code
  /\ StartsWith(thrown[1].message, label \o " failed: ")

C9_StepOrder ==
  (fn = "linux_ficlone") =>
    /\ IsPrefix(SysNames, FullOrder) \/ SysNames = <<"open", "open", "close">>
    /\ Len(trace) >= 1 => trace[1].path = src
    /\ Len(trace) >= 2 => trace[2].path = dest
    /\ Len(trace) >= 3 /\ trace[3].sys = "ioctl" =>
         trace[3].fd = trace[2].ret /\ trace[3].fd2 = trace[1].ret
    /\ Len(trace) >= 6 => trace[6].path = dest
    /\ (Done /\ trace # <<>>) =>
         CASE trace[1].ret < 0 ->
                /\ Len(trace) = 1
                /\ fs = fsBefore
                /\ Reported("open source", trace[1].err)
           [] trace[1].ret >= 0 /\ trace[2].ret < 0 ->
                /\ SysNames = <<"open", "open", "close">>
                /\ trace[3].fd = trace[1].ret
                /\ fs = fsBefore
                /\ Reported("open dest", trace[2].err)
           [] trace[1].ret >= 0 /\ trace[2].ret >= 0 /\ trace[3].ret # 0 ->
                /\ SysNames = FullOrder
                /\ trace[4].fd = trace[1].ret
                /\ trace[5].fd = trace[2].ret
                /\ Reported("ioctl FICLONE", trace[3].err)
           [] OTHER ->
                /\ SysNames = SubSeq(FullOrder, 1, 5)
                /\ trace[4].fd = trace[1].ret
                /\ trace[5].fd = trace[2].ret
                /\ ret = JsUndefined
                /\ thrown = <<>>

\* The ioctl failed, the unlink failed with another code, and the error
\* reported is the ioctl's.
C9_Witness ==
  /\ Done
  /\ fn = "linux_ficlone"
  /\ Len(trace) = 6
  /\ trace[6].ret < 0
  /\ trace[6].err # trace[3].err
  /\ errno = trace[6].err
  /\ Reported("ioctl FICLONE", trace[3].err)

(***************************************************************************)
(* C10.  As claimed: whatever the outcome of linux_ficlone, and also when  *)
(* src and dest name the same file, the source that existed before the     *)
(* call is still there with its content when the call returns.  The code   *)
(* opens dest with O_TRUNC and unlinks it after a failed ioctl, and dest   *)
(* may be the source.                                                      *)
(***************************************************************************)
C10_SourcePreserved ==
  (Done /\ fn = "linux_ficlone" /\ ArgsValid(args)
     /\ ExistsIn(fsBefore, args[1].s)) =>
    fs[args[1].s.stem] = fsBefore[args[1].s.stem]

====
